---- MODULE Spec2Model ----
(***************************************************************************)
(* Attendance tracker: the Flask handlers of attendance_api.py on top of   *)
(* the AttendanceSystem data-access object of std_db.py and its MySQL      *)
(* store (tables students and attendance).                                 *)
(*                                                                         *)
(* Every SQL statement and every commit is one step.  A statement that     *)
(* writes keeps its rows locked until the commit of its connection; the    *)
(* rows become visible to the other connections at the commit.  A SELECT   *)
(* reads the committed rows.                                               *)
(***************************************************************************)
EXTENDS Integers, Sequences, FiniteSets, TLC

(* ------------------------------ bounds -------------------------------- *)
NClients == 2      \* requests of one run; client c sends the c-th request
MaxId    == 1      \* student ids are 1..MaxId
NDates   == 1      \* well-formed dates are 2024-01-10 .. 2024-01-(9+NDates)

Clients == 1..NClients
Ids     == 1..MaxId

(* ------------------------------ values -------------------------------- *)
None    == "<None>"                 \* Python None / JSON field not supplied
Names   == {"Ann", "Bob"}
Classes == {"5A"}
ENUM_status == {"Present", "Absent"}          \* std_db.py:74
StatusInputs == {"Present", "Absent", "Late", None}

(* --------------------------- dates as text ---------------------------- *)
\* A date string is a sequence of one-character strings.
DigitChars == <<"0", "1", "2", "3", "4", "5", "6", "7", "8", "9">>
IsDigit(ch) == \E i \in 1..10 : DigitChars[i] = ch
DigitVal(ch) == (CHOOSE i \in 1..10 : DigitChars[i] = ch) - 1
DigitChar(n) == DigitChars[n + 1]

AllDigits(s) == \A i \in 1..Len(s) : IsDigit(s[i])

RECURSIVE NumVal(_)
NumVal(s) == IF s = <<>> THEN 0
             ELSE 10 * NumVal(SubSeq(s, 1, Len(s) - 1)) + DigitVal(s[Len(s)])

IsLeap(y) == (y % 4 = 0 /\ y % 100 # 0) \/ y % 400 = 0
DaysInMonth(y, m) ==
    IF m = 2 THEN (IF IsLeap(y) THEN 29 ELSE 28)
    ELSE IF m \in {4, 6, 9, 11} THEN 30 ELSE 31

\* The directive %m of strptime: 1[0-2] | 0[1-9] | [1-9]
MatchesMonth(s) == /\ Len(s) \in {1, 2}
                   /\ AllDigits(s)
                   /\ NumVal(s) \in 1..12
\* The directive %d of strptime: 3[01] | [12]\d | 0[1-9] | [1-9] | " "[1-9]
MatchesDay(s) == \/ /\ Len(s) \in {1, 2}
                    /\ AllDigits(s)
                    /\ NumVal(s) \in 1..31
                 \/ /\ Len(s) = 2
                    /\ s[1] = " "
                    /\ IsDigit(s[2])
                    /\ DigitVal(s[2]) \in 1..9
DayVal(s) == IF s[1] = " " THEN DigitVal(s[2]) ELSE NumVal(s)

\* The ways to cut s into <year>-<month>-<day> with a 4-digit year.
Splits(s) ==
    {p \in {1, 2} \X {1, 2} :
        /\ Len(s) = 4 + 1 + p[1] + 1 + p[2]
        /\ AllDigits(SubSeq(s, 1, 4))
        /\ s[5] = "-"
        /\ s[6 + p[1]] = "-"
        /\ MatchesMonth(SubSeq(s, 6, 5 + p[1]))
        /\ MatchesDay(SubSeq(s, 7 + p[1], Len(s)))}

\* datetime.strptime(s, '%Y-%m-%d').date(): the date <<y, m, d>>, or
\* ValueError when the text does not match or names no calendar day.
ValueError == <<>>
strptime(s) ==
    IF Splits(s) = {} THEN ValueError
    ELSE LET p == CHOOSE q \in Splits(s) : TRUE
             y == NumVal(SubSeq(s, 1, 4))
             m == NumVal(SubSeq(s, 6, 5 + p[1]))
             d == DayVal(SubSeq(s, 7 + p[1], Len(s)))
         IN  IF y >= 1 /\ d <= DaysInMonth(y, m) THEN <<y, m, d>>
             ELSE ValueError

\* str(date): isoformat, zero padded.
Pad(n, w) == [i \in 1..w |-> DigitChar((n \div (10 ^ (w - i))) % 10)]
str(d) == Pad(d[1], 4) \o <<"-">> \o Pad(d[2], 2) \o <<"-">> \o Pad(d[3], 2)

\* The well-formed dates of the model and the date strings requests carry.
Dates == {<<2024, 1, 9 + k>> : k \in 1..NDates}
DateStrings ==
    {str(d) : d \in Dates}
    \cup { <<"2", "0", "2", "4", "-", "1", "-", "1", "0">>,            \* 2024-1-10
           <<"2", "0", "2", "4", "/", "0", "1", "/", "1", "0">>,       \* 2024/01/10
           <<"n", "o", "t", "-", "a", "-", "d", "a", "t", "e">> }      \* not-a-date

(* ------------------------------- state -------------------------------- *)
VARIABLES
    students,      \* committed rows of table students: [id, name, class]
    attendance,    \* committed rows of table attendance: [student_id, date, status]
    strict,        \* the server's sql_mode is strict (set outside the program)
    req,           \* per client: the request, the handler's position, the response
    tx,            \* per client: the uncommitted writes and row locks of its connection
    order,         \* the clients in the order their responses were sent
    overlap,       \* some request arrived while another one was being handled
    students0,     \* the rows of students when the process started
    attendance0,   \* the rows of attendance when the process started
    reachable,     \* the store server accepts new connections
    schema,        \* what exists on the server: the database, its tables
    boot           \* the position of init_system and of the process start

vars == <<students, attendance, strict, req, tx, order, overlap, students0, attendance0,
          reachable, schema, boot>>

StudentRow(id, name, class) == [id |-> id, name |-> name, class |-> class]
AttendanceRow(sid, d, status) == [student_id |-> sid, date |-> d, status |-> status]

\* Schema of create_tables.
PrimaryKeyStudents(rows) ==
    \A r1 \in rows, r2 \in rows : r1.id = r2.id => r1 = r2
PrimaryKeyAttendance(rows) ==
    \A r1 \in rows, r2 \in rows :
        (r1.student_id = r2.student_id /\ r1.date = r2.date) => r1 = r2
ForeignKey(srows, arows) ==
    \A a \in arows : \E s \in srows : s.id = a.student_id

\* AttendanceSystem.connect_db returns a connection (and not None):
\* pymysql.connect with database='attendance_db' succeeds.
connect_db == reachable /\ schema.database

\* cursor.execute("SELECT ... FROM students WHERE id = %s"): the rows found.
SelectStudent(sid) == {r \in students : r.id = sid}
\* cursor.execute("SELECT ... FROM attendance WHERE student_id = %s AND date = %s")
SelectAttendance(sid, d) == {r \in attendance : r.student_id = sid /\ r.date = d}
\* cursor.execute("SELECT ... FROM attendance WHERE student_id = %s")
SelectAttendanceOf(sid) == {r \in attendance : r.student_id = sid}

\* AttendanceSystem.get_student: the row found; None without a connection.
get_student(sid) == IF connect_db THEN SelectStudent(sid) ELSE {}
\* AttendanceSystem.list_students: the rows; [] without a connection.
list_students_rows == IF connect_db THEN students ELSE {}

\* jsonify of one attendance row: the date goes out as str(row['date']).
AttendanceJson(r) == [student_id |-> r.student_id, date |-> str(r.date), status |-> r.status]

(* ---------------------- connections and row locks --------------------- *)
NoTx == [sDel |-> {}, sAdd |-> {}, aDel |-> {}, aAdd |-> {}, sShared |-> {}]

\* Rows of students a connection holds exclusively / shared (foreign key check).
XStudents(c) == {r.id : r \in tx[c].sDel \cup tx[c].sAdd}
SStudents(c) == tx[c].sShared
XAttendance(c) == {<<r.student_id, r.date>> : r \in tx[c].aDel \cup tx[c].aAdd}

StudentXLockedByOther(c, sid) == \E o \in Clients \ {c} : sid \in XStudents(o)
StudentLockedByOther(c, sid) ==
    \E o \in Clients \ {c} : sid \in XStudents(o) \cup SStudents(o)
AttendanceLockedByOther(c, sid, d) ==
    \E o \in Clients \ {c} : <<sid, d>> \in XAttendance(o)
AttendanceOfLockedByOther(c, sid) ==
    \E o \in Clients \ {c} : \E k \in XAttendance(o) : k[1] = sid

\* conn.commit(): the writes of the connection become the committed rows.
CommittedStudents(c) == (students \ tx[c].sDel) \cup tx[c].sAdd
CommittedAttendance(c) == (attendance \ tx[c].aDel) \cup tx[c].aAdd

(* ------------------------------ requests ------------------------------ *)
Idle == [kind |-> "idle", sid |-> 0, name |-> None, class |-> None,
         date |-> <<>>, status |-> None, pc |-> "idle", conns |-> 0,
         open |-> 0, refused |-> FALSE, wrote |-> FALSE, code |-> 0, body |-> {}]

Request(kind, sid, name, class, date, status) ==
    [kind |-> kind, sid |-> sid, name |-> name, class |-> class,
     date |-> date, status |-> status, pc |-> "idle", conns |-> 0,
     open |-> 0, refused |-> FALSE, wrote |-> FALSE, code |-> 0, body |-> {}]

\* return jsonify(body), code
Respond(r, code, body) == [r EXCEPT !.pc = "done", !.code = code, !.body = body]
Goto(r, pc) == [r EXCEPT !.pc = pc]
\* conn = self.connect_db(): one more connection opened for the request;
\* refused: a connect_db of the request returned None.
Conn(r) == IF connect_db THEN [r EXCEPT !.conns = @ + 1]
           ELSE [r EXCEPT !.refused = TRUE]
\* str(e) of the AttributeError of conn.cursor() when connect_db returned None
NoCursor == "'NoneType' object has no attribute 'cursor'"
\* The operation has not reached its disconnect_db yet: the connection it
\* opened is still open after the step.
Held(r) == [r EXCEPT !.open = 1]
\* self.disconnect_db(conn)
Released(r) == [r EXCEPT !.open = 0]
\* conn.commit() of the request's connection; wrote: a commit of the request
\* has changed the committed rows.
Commit(c, r) ==
    [r EXCEPT !.wrote = @ \/ CommittedStudents(c) # students
                          \/ CommittedAttendance(c) # attendance]
\* "if not existing": the existence check of a handler found no row.
\* Mutant: the handler goes on without the check.
NotFound_Never(rows) == FALSE
NotFound(rows) == rows = {}
\* jsonify({'error': msg}) and jsonify({'message': msg})
Error(msg) == {[error |-> msg]}
Message(msg) == {[message |-> msg]}

InFlight(c) == req[c].pc \notin {"idle", "done"}

\* Bookkeeping of a step of client c that is the arrival of its request.
\* The clients are numbered in the order their requests arrive.
Arrival(c) ==
    /\ \A o \in Clients : o < c => req[o].pc # "idle"
    /\ overlap' = (overlap \/ \E o \in Clients \ {c} : InFlight(o))
    /\ order' = IF req'[c].pc = "done" THEN Append(order, c) ELSE order
    /\ UNCHANGED <<strict, students0, attendance0, reachable, schema, boot>>
\* Bookkeeping of a later step of client c.
Step(c) ==
    /\ order' = IF req'[c].pc = "done" THEN Append(order, c) ELSE order
    /\ UNCHANGED <<overlap, strict, students0, attendance0, reachable, schema, boot>>

(* -------------------------------- Init -------------------------------- *)
\* The store outlives the process: create_tables keeps the rows it finds
\* (CREATE TABLE IF NOT EXISTS), and they satisfy the schema.
InitStudents ==
    {rows \in SUBSET {StudentRow(i, n, k) : i \in Ids, n \in Names, k \in Classes} :
        PrimaryKeyStudents(rows)}
InitAttendance(srows) ==
    {rows \in SUBSET {AttendanceRow(i, d, s) : i \in Ids, d \in Dates, s \in ENUM_status} :
        PrimaryKeyAttendance(rows) /\ ForeignKey(srows, rows)}

max_retries == 5
Tables == {"students", "attendance"}
FullSchema == [database |-> TRUE, tables |-> Tables]
\* The process at the start of init_system; down: the server has been
\* unreachable at some moment since the process started.
Boot(down) == [pc |-> "init_system", attempt |-> 0, failed |-> 0, sleeps |-> 0,
               down |-> down, dbFailed |-> FALSE, tablesFailed |-> FALSE]
\* init_system has returned the system and app.run serves requests.
Serving == [Boot(FALSE) EXCEPT !.pc = "serving"]

\* The process serves requests on a store whose schema exists.
InitServing ==
    /\ students \in InitStudents
    /\ attendance \in InitAttendance(students)
    /\ strict \in BOOLEAN
    /\ req = [c \in Clients |-> Idle]
    /\ tx = [c \in Clients |-> NoTx]
    /\ order = <<>>
    /\ overlap = FALSE
    /\ students0 = students
    /\ attendance0 = attendance
    /\ schema = FullSchema
    /\ boot = Serving

Init ==
    /\ InitServing
    /\ reachable = TRUE

(* --------------------------- store statements ------------------------- *)
\* Mutant: the table students has no primary key.
DuplicateStudent_NoKey(sid) == FALSE
\* INSERT INTO students: error 1062 when the primary key is taken.
DuplicateStudent(sid) == SelectStudent(sid) # {}
\* Mutant: the table attendance has no primary key.
DuplicateAttendance_NoKey(sid, d) == FALSE
\* INSERT INTO attendance: error 1062 when (student_id, date) is taken.
DuplicateAttendance(sid, d) == SelectAttendance(sid, d) # {}
\* Mutant: the table attendance has no foreign key.
NoParentStudent_NoKey(sid) == FALSE
\* INSERT INTO attendance: error 1452 when student_id references no student.
NoParentStudent(sid) == SelectStudent(sid) = {}
\* DELETE FROM students: error 1451 while rows of attendance, other than the
\* ones the connection itself has deleted, reference the student.
HasChildRows(c, sid) == SelectAttendanceOf(sid) \ tx[c].aDel # {}

\* Mutant: add_student inserts without looking for the id first.
StudentAlreadyExists_Never(sid) == FALSE
\* add_student: "SELECT id FROM students WHERE id = %s" and cursor.fetchone().
StudentAlreadyExists(sid) == SelectStudent(sid) # {}
\* Mutant: the insert stores the default name of Student() instead of the name given.
InsertedStudent_NoName(sid, name, class) == {StudentRow(sid, "", class)}
\* add_student: the row of "INSERT INTO students (id, name, class) VALUES (...)".
InsertedStudent(sid, name, class) == {StudentRow(sid, name, class)}
\* Mutant: delete_student leaves the attendance rows alone.
DeletedAttendanceOf_None(sid) == {}
\* delete_student: the rows of "DELETE FROM attendance WHERE student_id=%s".
DeletedAttendanceOf(sid) == SelectAttendanceOf(sid)
\* delete_student: the rows of "DELETE FROM students WHERE id=%s".
DeletedStudent(sid) == SelectStudent(sid)
\* Mutant: mark_attendance inserts without looking for a record first.
AttendanceAlreadyMarked_Never(sid, d) == FALSE
\* mark_attendance: the SELECT on attendance and cursor.fetchone().
AttendanceAlreadyMarked(sid, d) == SelectAttendance(sid, d) # {}
\* mark_attendance: the row of "INSERT INTO attendance (student_id, date, status)".
InsertedAttendance(sid, d, status) == {AttendanceRow(sid, d, status)}

\* A value assigned to a NOT NULL text column: NULL is refused in strict
\* mode and stored as the implicit default '' otherwise.
NotNullText(v) == IF v = None THEN "" ELSE v
\* A value assigned to the column status ENUM('Present','Absent') NOT NULL:
\* refused in strict mode when it is NULL or no member; otherwise NULL is
\* stored as the first member and a non-member as the error value ''.
EnumStatus(v) == IF v \in ENUM_status THEN v
                 ELSE IF v = None THEN "Present" ELSE ""

(* ------------------------- POST /students ----------------------------- *)
\* create_student up to the SELECT of add_student.
create_student(c) ==
    /\ req[c].pc = "idle"
    /\ \E sid \in Ids, name \in Names \cup {"", None}, class \in Classes \cup {"", None} :
        LET r == Request("create_student", sid, name, class, <<>>, None) IN
        req' = [req EXCEPT ![c] =
            IF name = None \/ class = None
            THEN Respond(r, 400, Error("Missing required field"))
            ELSE IF ~connect_db
            THEN Respond(Conn(r), 400, Error("Failed to connect to database"))
            ELSE IF StudentAlreadyExists(sid)
            THEN Respond(Conn(r), 400, Error("Student with ID already exists"))
            ELSE Goto(Held(Conn(r)), "add_student_insert")]
    /\ UNCHANGED <<students, attendance, tx>>
    /\ Arrival(c)

\* add_student: INSERT INTO students.
add_student_insert(c) ==
    /\ req[c].pc = "add_student_insert"
    /\ ~StudentXLockedByOther(c, req[c].sid)
    /\ IF DuplicateStudent(req[c].sid)
       THEN /\ req' = [req EXCEPT ![c] = Respond(Released(@), 400, Error("Database error"))]
            /\ tx' = [tx EXCEPT ![c] = NoTx]
       ELSE /\ req' = [req EXCEPT ![c] = Goto(@, "add_student_commit")]
            /\ tx' = [tx EXCEPT ![c].sAdd =
                         InsertedStudent(req[c].sid, req[c].name, req[c].class)]
    /\ UNCHANGED <<students, attendance>>
    /\ Step(c)

\* add_student: conn.commit() and return student_id.
add_student_commit(c) ==
    /\ req[c].pc = "add_student_commit"
    /\ students' = CommittedStudents(c)
    /\ attendance' = CommittedAttendance(c)
    /\ tx' = [tx EXCEPT ![c] = NoTx]
    /\ req' = [req EXCEPT ![c] = Goto(Released(Commit(c, @)), "create_student_get")]
    /\ Step(c)

\* create_student: row = system.get_student(sid) and the response.
create_student_get(c) ==
    /\ req[c].pc = "create_student_get"
    /\ req' = [req EXCEPT ![c] =
          IF get_student(req[c].sid) = {}
          THEN Respond(Conn(@), 400, Error("'NoneType' object is not subscriptable"))
          ELSE Respond(Conn(@), 201, SelectStudent(req[c].sid))]
    /\ UNCHANGED <<students, attendance, tx>>
    /\ Step(c)

(* ------------------------- GET /students ------------------------------ *)
list_students(c) ==
    /\ req[c].pc = "idle"
    /\ req' = [req EXCEPT ![c] =
          Respond(Conn(Request("list_students", 0, None, None, <<>>, None)), 200,
                  list_students_rows)]
    /\ UNCHANGED <<students, attendance, tx>>
    /\ Arrival(c)

(* ------------------------- GET /students/<sid> ------------------------ *)
read_student(c) ==
    /\ req[c].pc = "idle"
    /\ \E sid \in Ids :
        LET r == Request("read_student", sid, None, None, <<>>, None) IN
        req' = [req EXCEPT ![c] =
            IF NotFound(get_student(sid)) THEN Respond(Conn(r), 404, Message("Student not found"))
            ELSE Respond(Conn(r), 200, SelectStudent(sid))]
    /\ UNCHANGED <<students, attendance, tx>>
    /\ Arrival(c)

(* ------------------------- PUT /students/<sid> ------------------------ *)
\* AttendanceSystem.update_student: the rows "UPDATE students SET name=%s,
\* class=%s WHERE id=%s" writes in place of the rows old.
UpdatedStudent(old, name, class) ==
    {StudentRow(r.id, NotNullText(name), NotNullText(class)) : r \in old}

\* update_student up to existing = system.get_student(sid).
update_student(c) ==
    /\ req[c].pc = "idle"
    /\ \E sid \in Ids, name \in Names \cup {None}, class \in Classes \cup {None} :
        LET r == Request("update_student", sid, name, class, <<>>, None) IN
        req' = [req EXCEPT ![c] =
            IF NotFound(get_student(sid)) THEN Respond(Conn(r), 404, Message("Student not found"))
            ELSE Goto(Conn(r), "update_student_update")]
    /\ UNCHANGED <<students, attendance, tx>>
    /\ Arrival(c)

\* AttendanceSystem.update_student: UPDATE students SET name, class WHERE id.
update_student_update(c) ==
    /\ req[c].pc = "update_student_update"
    /\ connect_db => ~StudentLockedByOther(c, req[c].sid)
    /\ LET old == SelectStudent(req[c].sid)
           null == req[c].name = None \/ req[c].class = None
       IN  IF ~connect_db
           THEN /\ req' = [req EXCEPT ![c] = Respond(Conn(@), 400, Error(NoCursor))]
                /\ UNCHANGED tx
           ELSE IF old # {} /\ null /\ strict
           THEN /\ req' = [req EXCEPT ![c] =
                           Respond(Held(Conn(@)), 400, Error("Column cannot be null"))]
                /\ tx' = [tx EXCEPT ![c] = NoTx]
           ELSE /\ req' = [req EXCEPT ![c] = Goto(Held(Conn(@)), "update_student_commit")]
                /\ tx' = [tx EXCEPT ![c].sDel = old,
                                    ![c].sAdd = UpdatedStudent(old, req[c].name, req[c].class)]
    /\ UNCHANGED <<students, attendance>>
    /\ Step(c)

update_student_commit(c) ==
    /\ req[c].pc = "update_student_commit"
    /\ students' = CommittedStudents(c)
    /\ attendance' = CommittedAttendance(c)
    /\ tx' = [tx EXCEPT ![c] = NoTx]
    /\ req' = [req EXCEPT ![c] = Goto(Released(Commit(c, @)), "update_student_get")]
    /\ Step(c)

\* update_student: row = system.get_student(sid) and the response.
update_student_get(c) ==
    /\ req[c].pc = "update_student_get"
    /\ req' = [req EXCEPT ![c] =
          IF get_student(req[c].sid) = {}
          THEN Respond(Conn(@), 400, Error("'NoneType' object is not subscriptable"))
          ELSE Respond(Conn(@), 200, SelectStudent(req[c].sid))]
    /\ UNCHANGED <<students, attendance, tx>>
    /\ Step(c)

(* ------------------------ DELETE /students/<sid> ---------------------- *)
\* delete_student up to existing = system.get_student(sid).
delete_student(c) ==
    /\ req[c].pc = "idle"
    /\ \E sid \in Ids :
        LET r == Request("delete_student", sid, None, None, <<>>, None) IN
        req' = [req EXCEPT ![c] =
            IF NotFound(get_student(sid)) THEN Respond(Conn(r), 404, Message("Student not found"))
            ELSE Goto(Conn(r), "delete_student_attendance")]
    /\ UNCHANGED <<students, attendance, tx>>
    /\ Arrival(c)

\* Mutant: the connection commits each statement at once (autocommit on).
delete_student_attendance_Autocommit(c) ==
    /\ req[c].pc = "delete_student_attendance"
    /\ connect_db => ~AttendanceOfLockedByOther(c, req[c].sid)
    /\ IF ~connect_db
       THEN /\ req' = [req EXCEPT ![c] = Respond(Conn(@), 500, Error(NoCursor))]
            /\ attendance' = attendance
       ELSE /\ attendance' = attendance \ DeletedAttendanceOf(req[c].sid)
            /\ req' = [req EXCEPT ![c] = Goto(Held(Conn(@)), "delete_student_row")]
    /\ UNCHANGED <<students, tx>>
    /\ Step(c)
\* AttendanceSystem.delete_student: DELETE FROM attendance WHERE student_id.
delete_student_attendance(c) ==
    /\ req[c].pc = "delete_student_attendance"
    /\ connect_db => ~AttendanceOfLockedByOther(c, req[c].sid)
    /\ IF ~connect_db
       THEN /\ req' = [req EXCEPT ![c] = Respond(Conn(@), 500, Error(NoCursor))]
            /\ UNCHANGED tx
       ELSE /\ tx' = [tx EXCEPT ![c].aDel = DeletedAttendanceOf(req[c].sid)]
            /\ req' = [req EXCEPT ![c] = Goto(Held(Conn(@)), "delete_student_row")]
    /\ UNCHANGED <<students, attendance>>
    /\ Step(c)

\* AttendanceSystem.delete_student: DELETE FROM students WHERE id.
delete_student_row(c) ==
    /\ req[c].pc = "delete_student_row"
    /\ ~StudentLockedByOther(c, req[c].sid)
    /\ IF SelectStudent(req[c].sid) # {} /\ HasChildRows(c, req[c].sid)
       THEN /\ req' = [req EXCEPT ![c] =
                       Respond(@, 500, Error("Cannot delete or update a parent row"))]
            /\ UNCHANGED tx
       ELSE /\ req' = [req EXCEPT ![c] = Goto(@, "delete_student_commit")]
            /\ tx' = [tx EXCEPT ![c].sDel = DeletedStudent(req[c].sid)]
    /\ UNCHANGED <<students, attendance>>
    /\ Step(c)

\* AttendanceSystem.delete_student: conn.commit(); the handler answers 200.
delete_student_commit(c) ==
    /\ req[c].pc = "delete_student_commit"
    /\ students' = CommittedStudents(c)
    /\ attendance' = CommittedAttendance(c)
    /\ tx' = [tx EXCEPT ![c] = NoTx]
    /\ req' = [req EXCEPT ![c] = Respond(Released(Commit(c, @)), 200, Message("Student deleted"))]
    /\ Step(c)

(* ------------------------- POST /attendance --------------------------- *)
\* The status check of mark_attendance.
StatusValid(status) == status \in {"Present", "Absent"}

\* mark_attendance up to student = system.get_student(student_id).
mark_attendance(c) ==
    /\ req[c].pc = "idle"
    /\ \E sid \in Ids, date \in DateStrings, status \in StatusInputs :
        LET r == Request("mark_attendance", sid, None, None, date, status) IN
        req' = [req EXCEPT ![c] =
            IF status = None THEN Respond(r, 400, Error("Missing required field"))
            ELSE IF strptime(date) = ValueError
            THEN Respond(r, 400, Error("Invalid data format"))
            ELSE IF ~StatusValid(status)
            THEN Respond(r, 400, Error("Status must be either Present or Absent"))
            ELSE IF NotFound(get_student(sid))
            THEN Respond(Conn(r), 404, Error("Student with ID not found"))
            ELSE Goto(Conn(r), "mark_select_student")]
    /\ UNCHANGED <<students, attendance, tx>>
    /\ Arrival(c)

\* AttendanceSystem.mark_attendance: SELECT id FROM students.
mark_select_student(c) ==
    /\ req[c].pc = "mark_select_student"
    /\ req' = [req EXCEPT ![c] =
          IF ~connect_db
          THEN Respond(Conn(@), 400, Error("Failed to connect to database"))
          ELSE IF SelectStudent(req[c].sid) = {}
          THEN Respond(Conn(@), 400, Error("Student with ID not found"))
          ELSE Goto(Held(Conn(@)), "mark_select_attendance")]
    /\ UNCHANGED <<students, attendance, tx>>
    /\ Step(c)

\* AttendanceSystem.mark_attendance: SELECT student_id FROM attendance.
mark_select_attendance(c) ==
    /\ req[c].pc = "mark_select_attendance"
    /\ req' = [req EXCEPT ![c] =
          IF AttendanceAlreadyMarked(req[c].sid, strptime(req[c].date))
          THEN Respond(Released(@), 400, Error("Attendance already marked"))
          ELSE Goto(@, "mark_insert")]
    /\ UNCHANGED <<students, attendance, tx>>
    /\ Step(c)

\* AttendanceSystem.mark_attendance: INSERT INTO attendance.
mark_insert(c) ==
    /\ req[c].pc = "mark_insert"
    /\ LET sid == req[c].sid
           d == strptime(req[c].date)
       IN  /\ ~AttendanceLockedByOther(c, sid, d)
           /\ ~StudentXLockedByOther(c, sid)
           /\ IF DuplicateAttendance(sid, d) \/ NoParentStudent(sid)
              THEN /\ req' = [req EXCEPT ![c] =
                                   Respond(Released(@), 400, Error("Database error"))]
                   /\ tx' = [tx EXCEPT ![c] = NoTx]
              ELSE /\ req' = [req EXCEPT ![c] = Goto(@, "mark_commit")]
                   /\ tx' = [tx EXCEPT ![c].aAdd = InsertedAttendance(sid, d, req[c].status),
                                       ![c].sShared = {sid}]
    /\ UNCHANGED <<students, attendance>>
    /\ Step(c)

\* AttendanceSystem.mark_attendance: conn.commit() and return.
mark_commit(c) ==
    /\ req[c].pc = "mark_commit"
    /\ students' = CommittedStudents(c)
    /\ attendance' = CommittedAttendance(c)
    /\ tx' = [tx EXCEPT ![c] = NoTx]
    /\ req' = [req EXCEPT ![c] = Goto(Released(Commit(c, @)), "mark_get")]
    /\ Step(c)

\* mark_attendance: row = system.get_attendance(student_id, at_date) and the response.
mark_get(c) ==
    /\ req[c].pc = "mark_get"
    /\ LET rows == SelectAttendance(req[c].sid, strptime(req[c].date)) IN
       req' = [req EXCEPT ![c] =
          IF ~connect_db
          THEN Respond(Conn(@), 400, Error(NoCursor))
          ELSE IF rows = {}
          THEN Respond(Conn(@), 400, Error("'NoneType' object is not subscriptable"))
          ELSE Respond(Conn(@), 201, {AttendanceJson(r) : r \in rows})]
    /\ UNCHANGED <<students, attendance, tx>>
    /\ Step(c)

(* ------------------------- GET /attendance ---------------------------- *)
\* list_all_attendance: attendance JOIN students.
list_all_attendance(c) ==
    /\ req[c].pc = "idle"
    /\ req' = [req EXCEPT ![c] =
          IF ~connect_db
          THEN Respond(Conn(Request("list_all_attendance", 0, None, None, <<>>, None)), 500,
                       Error(NoCursor))
          ELSE
          Respond(Conn(Request("list_all_attendance", 0, None, None, <<>>, None)), 200,
                  {[student_id |-> s.id, name |-> s.name, class |-> s.class,
                    date |-> str(a.date), status |-> a.status] :
                      <<a, s>> \in {p \in attendance \X students : p[1].student_id = p[2].id}})]
    /\ UNCHANGED <<students, attendance, tx>>
    /\ Arrival(c)

(* ------------------ GET /attendance/<student_id>/<date> --------------- *)
get_attendance(c) ==
    /\ req[c].pc = "idle"
    /\ \E sid \in Ids, date \in DateStrings :
        LET r == Request("get_attendance", sid, None, None, date, None)
            rows == SelectAttendance(sid, strptime(date))
        IN  req' = [req EXCEPT ![c] =
                IF strptime(date) = ValueError
                THEN Respond(r, 400, Error("Invalid date format. Use YYYY-MM-DD"))
                ELSE IF ~connect_db
                THEN Respond(Conn(r), 500, Error(NoCursor))
                ELSE IF rows = {}
                THEN Respond(Conn(r), 404, Message("Attendance record not found"))
                ELSE Respond(Conn(r), 200, {AttendanceJson(a) : a \in rows})]
    /\ UNCHANGED <<students, attendance, tx>>
    /\ Arrival(c)

(* ------------------ GET /attendance/student/<student_id> -------------- *)
list_attendance_for_student(c) ==
    /\ req[c].pc = "idle"
    /\ \E sid \in Ids :
        req' = [req EXCEPT ![c] =
            IF ~connect_db
            THEN Respond(Conn(Request("list_attendance_for_student", sid, None, None, <<>>, None)),
                         500, Error(NoCursor))
            ELSE
            Respond(Conn(Request("list_attendance_for_student", sid, None, None, <<>>, None)), 200,
                    {[date |-> str(a.date), status |-> a.status] : a \in SelectAttendanceOf(sid)})]
    /\ UNCHANGED <<students, attendance, tx>>
    /\ Arrival(c)

(* ------------------ PUT /attendance/<student_id>/<date> --------------- *)
\* Mutant: the UPDATE writes the rows back as they were.
UpdatedAttendance_Same(old, status) == old
\* AttendanceSystem.update_attendance: the rows "UPDATE attendance SET status=%s
\* WHERE student_id=%s AND date=%s" writes in place of the rows old.
UpdatedAttendance(old, status) ==
    {AttendanceRow(r.student_id, r.date, EnumStatus(status)) : r \in old}

\* update_attendance up to existing = system.get_attendance(student_id, at_date).
update_attendance(c) ==
    /\ req[c].pc = "idle"
    /\ \E sid \in Ids, date \in DateStrings, status \in StatusInputs :
        LET r == Request("update_attendance", sid, None, None, date, status) IN
        req' = [req EXCEPT ![c] =
            IF strptime(date) = ValueError
            THEN Respond(r, 400, Error("Invalid date format. Use YYYY-MM-DD"))
            ELSE IF ~connect_db
            THEN Respond(Conn(r), 400, Error(NoCursor))
            ELSE IF NotFound(SelectAttendance(sid, strptime(date)))
            THEN Respond(Conn(r), 404, Message("Record not found"))
            ELSE Goto(Conn(r), "update_attendance_update")]
    /\ UNCHANGED <<students, attendance, tx>>
    /\ Arrival(c)

\* AttendanceSystem.update_attendance: UPDATE attendance SET status.
update_attendance_update(c) ==
    /\ req[c].pc = "update_attendance_update"
    /\ LET sid == req[c].sid
           d == strptime(req[c].date)
           old == SelectAttendance(sid, d)
       IN  /\ connect_db => ~AttendanceLockedByOther(c, sid, d)
           /\ IF ~connect_db
              THEN /\ req' = [req EXCEPT ![c] = Respond(Conn(@), 400, Error(NoCursor))]
                   /\ UNCHANGED tx
              ELSE IF old # {} /\ req[c].status \notin ENUM_status /\ strict
              THEN /\ req' = [req EXCEPT ![c] =
                              Respond(Held(Conn(@)), 400, Error("Data truncated for column 'status'"))]
                   /\ tx' = [tx EXCEPT ![c] = NoTx]
              ELSE /\ req' = [req EXCEPT ![c] = Goto(Held(Conn(@)), "update_attendance_commit")]
                   /\ tx' = [tx EXCEPT ![c].aDel = old,
                                       ![c].aAdd = UpdatedAttendance(old, req[c].status)]
    /\ UNCHANGED <<students, attendance>>
    /\ Step(c)

update_attendance_commit(c) ==
    /\ req[c].pc = "update_attendance_commit"
    /\ students' = CommittedStudents(c)
    /\ attendance' = CommittedAttendance(c)
    /\ tx' = [tx EXCEPT ![c] = NoTx]
    /\ req' = [req EXCEPT ![c] = Goto(Released(Commit(c, @)), "update_attendance_get")]
    /\ Step(c)

\* update_attendance: row = system.get_attendance(student_id, at_date) and the response.
update_attendance_get(c) ==
    /\ req[c].pc = "update_attendance_get"
    /\ LET rows == SelectAttendance(req[c].sid, strptime(req[c].date)) IN
       req' = [req EXCEPT ![c] =
          IF ~connect_db
          THEN Respond(Conn(@), 400, Error(NoCursor))
          ELSE IF rows = {}
          THEN Respond(Conn(@), 400, Error("'NoneType' object is not subscriptable"))
          ELSE Respond(Conn(@), 200, {AttendanceJson(r) : r \in rows})]
    /\ UNCHANGED <<students, attendance, tx>>
    /\ Step(c)

(* ----------------- DELETE /attendance/<student_id>/<date> ------------- *)
\* delete_attendance up to existing = system.get_attendance(student_id, at_date).
delete_attendance(c) ==
    /\ req[c].pc = "idle"
    /\ \E sid \in Ids, date \in DateStrings :
        LET r == Request("delete_attendance", sid, None, None, date, None) IN
        req' = [req EXCEPT ![c] =
            IF strptime(date) = ValueError
            THEN Respond(r, 400, Error("Invalid date format. Use YYYY-MM-DD"))
            ELSE IF ~connect_db
            THEN Respond(Conn(r), 500, Error(NoCursor))
            ELSE IF NotFound(SelectAttendance(sid, strptime(date)))
            THEN Respond(Conn(r), 404, Message("Record not found"))
            ELSE Goto(Conn(r), "delete_attendance_delete")]
    /\ UNCHANGED <<students, attendance, tx>>
    /\ Arrival(c)

\* AttendanceSystem.delete_attendance: DELETE FROM attendance.
delete_attendance_delete(c) ==
    /\ req[c].pc = "delete_attendance_delete"
    /\ LET sid == req[c].sid
           d == strptime(req[c].date)
       IN  /\ connect_db => ~AttendanceLockedByOther(c, sid, d)
           /\ IF ~connect_db
              THEN /\ req' = [req EXCEPT ![c] = Respond(Conn(@), 500, Error(NoCursor))]
                   /\ UNCHANGED tx
              ELSE /\ req' = [req EXCEPT ![c] = Goto(Held(Conn(@)), "delete_attendance_commit")]
                   /\ tx' = [tx EXCEPT ![c].aDel = SelectAttendance(sid, d)]
    /\ UNCHANGED <<students, attendance>>
    /\ Step(c)

\* AttendanceSystem.delete_attendance: conn.commit(); the handler answers 200.
delete_attendance_commit(c) ==
    /\ req[c].pc = "delete_attendance_commit"
    /\ students' = CommittedStudents(c)
    /\ attendance' = CommittedAttendance(c)
    /\ tx' = [tx EXCEPT ![c] = NoTx]
    /\ req' = [req EXCEPT ![c] = Respond(Released(Commit(c, @)), 200, Message("Attendance deleted"))]
    /\ Step(c)

(* ---------------------- connections left open ------------------------- *)
\* update_student, delete_student and update_attendance have no finally: when
\* a statement of theirs raises, disconnect_db is skipped and the connection
\* stays open, with its locks, until the interpreter drops the object; the
\* server then rolls its transaction back.
connection_reclaimed(c) ==
    /\ req[c].pc = "done"
    /\ req[c].open > 0
    /\ req' = [req EXCEPT ![c] = Released(@)]
    /\ tx' = [tx EXCEPT ![c] = NoTx]
    /\ UNCHANGED <<students, attendance, order, overlap, strict, students0, attendance0,
                   reachable, schema, boot>>

(* -------------------------------- Next -------------------------------- *)
Next ==
    \E c \in Clients :
        \/ create_student(c)
        \/ add_student_insert(c)
        \/ add_student_commit(c)
        \/ create_student_get(c)
        \/ list_students(c)
        \/ read_student(c)
        \/ update_student(c)
        \/ update_student_update(c)
        \/ update_student_commit(c)
        \/ update_student_get(c)
        \/ delete_student(c)
        \/ delete_student_attendance(c)
        \/ delete_student_row(c)
        \/ delete_student_commit(c)
        \/ mark_attendance(c)
        \/ mark_select_student(c)
        \/ mark_select_attendance(c)
        \/ mark_insert(c)
        \/ mark_commit(c)
        \/ mark_get(c)
        \/ list_all_attendance(c)
        \/ get_attendance(c)
        \/ list_attendance_for_student(c)
        \/ update_attendance(c)
        \/ update_attendance_update(c)
        \/ update_attendance_commit(c)
        \/ update_attendance_get(c)
        \/ delete_attendance(c)
        \/ delete_attendance_delete(c)
        \/ delete_attendance_commit(c)
        \/ connection_reclaimed(c)

Spec == Init /\ [][Next]_vars

(* ------------------- requests while the store comes and goes ---------- *)
\* pymysql.connect of connect_db fails while the server accepts no new
\* connection; the connections already open go on.
outage ==
    /\ boot.pc = "serving"
    /\ reachable' = ~reachable
    /\ UNCHANGED <<students, attendance, strict, req, tx, order, overlap,
                   students0, attendance0, schema, boot>>

InitOutage ==
    /\ InitServing
    /\ reachable \in BOOLEAN

NextOutage == Next \/ outage

SpecOutage == InitOutage /\ [][NextOutage]_vars

(* ------------------------------ startup ------------------------------- *)
\* The loop variable attempt after a failed attempt, or the end of startup
\* after the last one: the raise of line 47 or the return None of line 51
\* both end in exit(1) of __main__.
NextAttempt(b, slept) ==
    IF b.attempt < max_retries - 1
    THEN [b EXCEPT !.pc = "init_system", !.attempt = @ + 1, !.failed = @ + 1,
                   !.sleeps = IF slept THEN @ + 1 ELSE @]
    ELSE [b EXCEPT !.pc = "exit", !.failed = @ + 1]

\* init_system: test_conn = pymysql.connect(host, user, password) of one attempt.
init_system ==
    /\ boot.pc = "init_system"
    /\ boot' = IF reachable THEN [boot EXCEPT !.pc = "connect_db"]
               ELSE NextAttempt(boot, TRUE)
    /\ UNCHANGED <<students, attendance, strict, req, tx, order, overlap,
                   students0, attendance0, reachable, schema>>

\* init_system: conn = system.connect_db() and "if conn:".
init_system_connect_db ==
    /\ boot.pc = "connect_db"
    /\ boot' = IF connect_db THEN [boot EXCEPT !.pc = "create_database"]
               ELSE NextAttempt(boot, FALSE)
    /\ UNCHANGED <<students, attendance, strict, req, tx, order, overlap,
                   students0, attendance0, reachable, schema>>

\* AttendanceSystem.create_database: CREATE DATABASE IF NOT EXISTS on a
\* connection without database; a MySQLError is printed and dropped.
create_database ==
    /\ boot.pc = "create_database"
    /\ IF reachable
       THEN /\ schema' = [schema EXCEPT !.database = TRUE]
            /\ boot' = [boot EXCEPT !.pc = "create_tables"]
       ELSE /\ schema' = schema
            /\ boot' = [boot EXCEPT !.pc = "create_tables", !.dbFailed = TRUE]
    /\ UNCHANGED <<students, attendance, strict, req, tx, order, overlap,
                   students0, attendance0, reachable>>

\* AttendanceSystem.create_tables: "if not conn: return", else the two
\* CREATE TABLE IF NOT EXISTS and the commit; init_system returns the system.
create_tables ==
    /\ boot.pc = "create_tables"
    /\ IF connect_db
       THEN /\ schema' = [schema EXCEPT !.tables = Tables]
            /\ boot' = [boot EXCEPT !.pc = "serving"]
       ELSE /\ schema' = schema
            /\ boot' = [boot EXCEPT !.pc = "serving", !.tablesFailed = TRUE]
    /\ UNCHANGED <<students, attendance, strict, req, tx, order, overlap,
                   students0, attendance0, reachable>>

\* The process is started again.
restart ==
    /\ boot.pc \in {"serving", "exit"}
    /\ boot' = Boot(~reachable)
    /\ UNCHANGED <<students, attendance, strict, req, tx, order, overlap,
                   students0, attendance0, reachable, schema>>

\* The server stops or starts accepting connections during the startup.
startup_outage ==
    /\ boot.pc \notin {"serving", "exit"}
    /\ reachable' = ~reachable
    /\ boot' = [boot EXCEPT !.down = TRUE]
    /\ UNCHANGED <<students, attendance, strict, req, tx, order, overlap,
                   students0, attendance0, schema>>

\* The server before the process starts: fresh, with the database only, with
\* one table, or with the schema and rows of an earlier run.
InitStartup ==
    /\ schema \in {[database |-> d, tables |-> t] :
                       d \in BOOLEAN, t \in {{}, {"students"}, Tables}}
    /\ schema.tables # {} => schema.database
    /\ students \in IF "students" \in schema.tables THEN InitStudents ELSE {{}}
    /\ attendance \in IF "attendance" \in schema.tables
                       THEN InitAttendance(students) ELSE {{}}
    /\ strict \in BOOLEAN
    /\ req = [c \in Clients |-> Idle]
    /\ tx = [c \in Clients |-> NoTx]
    /\ order = <<>>
    /\ overlap = FALSE
    /\ students0 = students
    /\ attendance0 = attendance
    /\ reachable \in BOOLEAN
    /\ boot = Boot(~reachable)

NextStartup ==
    \/ init_system
    \/ init_system_connect_db
    \/ create_database
    \/ create_tables
    \/ restart
    \/ startup_outage

SpecStartup == InitStartup /\ [][NextStartup]_vars

(* ------------------------------ properties ---------------------------- *)
Done(c) == req[c].pc = "done"
Quiet == \A c \in Clients : ~InFlight(c)
StudentIds(rows) == {r.id : r \in rows}
HadStudent(sid) == sid \in StudentIds(students0)
Attendance0(sid, d) == {r \in attendance0 : r.student_id = sid /\ r.date = d}
ReadOnlyKinds == {"idle", "list_students", "read_student", "list_all_attendance",
                  "get_attendance", "list_attendance_for_student"}

\* The valid mark requests of the run for student sid on day d.
MarksOf(sid, d) ==
    {c \in Clients : /\ req[c].kind = "mark_attendance"
                     /\ req[c].sid = sid
                     /\ strptime(req[c].date) = d
                     /\ StatusValid(req[c].status)}

\* C1: when the requests that write are two or more valid marks of one
\* (student_id, date) of a student that exists and has no record for the day,
\* then, however their steps interleave, once all are answered exactly one
\* got 201 and every other one 400; and the table attendance never holds two
\* rows with the same (student_id, date).
C1_ExactlyOneMarkSucceeds ==
    /\ PrimaryKeyAttendance(attendance)
    /\ \A sid \in Ids, d \in Dates :
        ( /\ Cardinality(MarksOf(sid, d)) >= 2
          /\ \A c \in Clients \ MarksOf(sid, d) : req[c].kind \in ReadOnlyKinds
          /\ \A c \in MarksOf(sid, d) : Done(c)
          /\ HadStudent(sid)
          /\ Attendance0(sid, d) = {} )
        => /\ Cardinality({c \in MarksOf(sid, d) : req[c].code = 201}) = 1
           /\ \A c \in MarksOf(sid, d) : req[c].code \in {201, 400}

\* Two marks of the same pair both passed the pre-checks; the insert of the
\* second one was refused by the store.
C1_Witness ==
    \E c1 \in Clients, c2 \in Clients :
        /\ overlap
        /\ c1 # c2
        /\ {c1, c2} \subseteq MarksOf(req[c1].sid, strptime(req[c1].date))
        /\ Done(c1) /\ req[c1].code = 201
        /\ Done(c2) /\ req[c2].code = 400 /\ req[c2].body = Error("Database error")

\* C2: in every committed state of the store every attendance row references
\* a student that is in the table students.
C2_ReferentialIntegrity == ForeignKey(students, attendance)

\* A mark raced with the delete of its student: the delete won and the
\* insert of the mark was refused.
C2_Witness ==
    \E c1 \in Clients, c2 \in Clients :
        /\ overlap
        /\ req[c1].kind = "mark_attendance" /\ Done(c1)
        /\ req[c1].code = 400 /\ req[c1].body = Error("Database error")
        /\ req[c2].kind = "delete_student" /\ Done(c2) /\ req[c2].code = 200
        /\ req[c1].sid = req[c2].sid
        /\ SelectStudent(req[c1].sid) = {}

\* C3: a DELETE /students/{id} that runs alone on an existing student answers
\* 200 and removes the student and all its attendance rows: the next request,
\* if it lists the student's attendance gets the empty list, if it gets one of
\* the student's former records gets 404, if it gets the student gets 404.
C3_DeleteStudentCascades ==
    (~overlap /\ Len(order) >= 1 /\ req[order[1]].kind = "delete_student") =>
        LET c1 == order[1]
            sid == req[c1].sid
        IN  /\ HadStudent(sid) => req[c1].code = 200
            /\ (req[c1].code = 200 /\ Len(order) = 1 /\ Quiet) =>
                    SelectStudent(sid) = {} /\ SelectAttendanceOf(sid) = {}
            /\ (req[c1].code = 200 /\ Len(order) >= 2 /\ req[order[2]].sid = sid) =>
                LET r2 == req[order[2]] IN
                /\ r2.kind = "list_attendance_for_student" => r2.code = 200 /\ r2.body = {}
                /\ (r2.kind = "get_attendance" /\ Attendance0(sid, strptime(r2.date)) # {})
                        => r2.code = 404
                /\ r2.kind = "read_student" => r2.code = 404

\* A student with a record was deleted and the record was then asked for.
C3_Witness ==
    /\ ~overlap /\ Len(order) = 2
    /\ req[order[1]].kind = "delete_student" /\ req[order[1]].code = 200
    /\ req[order[2]].kind = "get_attendance" /\ req[order[2]].code = 404
    /\ req[order[2]].sid = req[order[1]].sid
    /\ Attendance0(req[order[1]].sid, strptime(req[order[2]].date)) # {}

\* C4: a mark that finds its student missing answers 404, also when the
\* student was removed by another request while the mark was in progress.
C4_MissingStudentIsNotFound ==
    \A c \in Clients :
        ( /\ req[c].kind = "mark_attendance"
          /\ Done(c)
          /\ req[c].body = Error("Student with ID not found") )
        => req[c].code = 404

\* C5: a valid mark that runs alone on an existing student without a record
\* for the day answers 201; a following mark of the same (student_id, date)
\* answers 400, as the conflict "already marked" when its status is valid,
\* and the stored status is still the one of the first mark.
C5_SecondMarkConflicts ==
    ( /\ ~overlap
      /\ Len(order) >= 1
      /\ req[order[1]].kind = "mark_attendance"
      /\ strptime(req[order[1]].date) # ValueError
      /\ StatusValid(req[order[1]].status) ) =>
        LET r1 == req[order[1]]
            sid == r1.sid
            d == strptime(r1.date)
        IN  /\ (HadStudent(sid) /\ Attendance0(sid, d) = {}) => r1.code = 201
            /\ ( /\ r1.code = 201
                 /\ Len(order) >= 2
                 /\ req[order[2]].kind = "mark_attendance"
                 /\ req[order[2]].sid = sid
                 /\ strptime(req[order[2]].date) = d ) =>
                    LET r2 == req[order[2]] IN
                    /\ r2.code = 400
                    /\ StatusValid(r2.status) => r2.body = Error("Attendance already marked")
                    /\ (Len(order) = 2 /\ Quiet) =>
                            SelectAttendance(sid, d) = {AttendanceRow(sid, d, r1.status)}

\* Two marks in a row of the same pair with different statuses.
C5_Witness ==
    /\ ~overlap /\ Len(order) = 2
    /\ req[order[1]].kind = "mark_attendance" /\ req[order[1]].code = 201
    /\ req[order[2]].kind = "mark_attendance" /\ req[order[2]].code = 400
    /\ req[order[2]].sid = req[order[1]].sid
    /\ strptime(req[order[2]].date) = strptime(req[order[1]].date)
    /\ StatusValid(req[order[2]].status)
    /\ req[order[2]].status # req[order[1]].status
    /\ \E r \in attendance : r.status = req[order[1]].status

\* C6: a POST /students with all fields whose id is the id of a student that
\* exists, and that no request of the run deletes, answers 400 "already
\* exists" whatever name and class it carries; and requests that create
\* students leave the rows that were there as they were.
C6_DuplicateIdRejected ==
    /\ \A c \in Clients :
        ( /\ req[c].kind = "create_student"
          /\ Done(c)
          /\ req[c].name # None /\ req[c].class # None
          /\ HadStudent(req[c].sid)
          /\ \A o \in Clients : ~(req[o].kind = "delete_student" /\ req[o].sid = req[c].sid) )
        => /\ req[c].code = 400
           /\ req[c].body = Error("Student with ID already exists")
    /\ (\A c \in Clients : req[c].kind \in ReadOnlyKinds \cup {"create_student"})
            => students0 \subseteq students

\* A create with the id of a stored student and another name was refused.
C6_Witness ==
    \E c \in Clients :
        /\ req[c].kind = "create_student" /\ Done(c) /\ req[c].code = 400
        /\ req[c].name # None /\ req[c].class # None
        /\ \E r \in students : r.id = req[c].sid /\ r.name # req[c].name

\* C7: a POST /students with all fields and an id that is not taken, running
\* alone, answers 201 with the triple given; a following GET /students/{id}
\* answers 200 with the same triple.
C7_CreateThenGet ==
    ( /\ ~overlap
      /\ Len(order) >= 1
      /\ req[order[1]].kind = "create_student"
      /\ req[order[1]].name # None /\ req[order[1]].class # None
      /\ ~HadStudent(req[order[1]].sid) ) =>
        LET r1 == req[order[1]]
            row == StudentRow(r1.sid, r1.name, r1.class)
        IN  /\ r1.code = 201 /\ r1.body = {row}
            /\ ( /\ Len(order) >= 2
                 /\ req[order[2]].kind = "read_student"
                 /\ req[order[2]].sid = r1.sid ) =>
                    req[order[2]].code = 200 /\ req[order[2]].body = {row}

C7_Witness ==
    /\ ~overlap /\ Len(order) = 2
    /\ req[order[1]].kind = "create_student" /\ req[order[1]].code = 201
    /\ req[order[2]].kind = "read_student" /\ req[order[2]].code = 200
    /\ req[order[2]].sid = req[order[1]].sid
    /\ ~HadStudent(req[order[1]].sid)

\* C8: when a mark with status s (existing student, no record for the day)
\* or an update with status t in {Present, Absent} (existing record) runs
\* alone and a get of the same (student_id, date) follows, the first answers
\* 201 / 200 and the get answers 200 with status s / t.
C8_StatusRoundTrip ==
    ( /\ ~overlap
      /\ Len(order) >= 2
      /\ req[order[2]].kind = "get_attendance"
      /\ req[order[2]].sid = req[order[1]].sid
      /\ strptime(req[order[1]].date) # ValueError
      /\ strptime(req[order[2]].date) = strptime(req[order[1]].date)
      /\ StatusValid(req[order[1]].status) ) =>
        LET r1 == req[order[1]]
            r2 == req[order[2]]
            d == strptime(r1.date)
            json == {[student_id |-> r1.sid, date |-> str(d), status |-> r1.status]}
        IN  /\ ( /\ r1.kind = "mark_attendance"
                 /\ HadStudent(r1.sid)
                 /\ Attendance0(r1.sid, d) = {} )
                => r1.code = 201 /\ r1.body = json /\ r2.code = 200 /\ r2.body = json
            /\ ( /\ r1.kind = "update_attendance"
                 /\ Attendance0(r1.sid, d) # {} )
                => r1.code = 200 /\ r1.body = json /\ r2.code = 200 /\ r2.body = json

\* An update changed the stored status and the get that followed returned it.
C8_Witness ==
    /\ ~overlap /\ Len(order) = 2
    /\ req[order[1]].kind = "update_attendance" /\ req[order[1]].code = 200
    /\ req[order[2]].kind = "get_attendance" /\ req[order[2]].code = 200
    /\ req[order[2]].sid = req[order[1]].sid
    /\ strptime(req[order[2]].date) = strptime(req[order[1]].date)
    /\ StatusValid(req[order[1]].status)
    /\ \E a \in Attendance0(req[order[1]].sid, strptime(req[order[1]].date)) :
            a.status # req[order[1]].status
    /\ \E b \in req[order[2]].body : b.status = req[order[1]].status

\* C9: the status of every stored attendance row is Present or Absent.
C9_StatusAlwaysPresentOrAbsent ==
    \A r \in attendance : r.status \in {"Present", "Absent"}

\* The text has the shape YYYY-MM-DD: four digits, two digits, two digits.
MatchesYYYYMMDD(s) ==
    /\ Len(s) = 10
    /\ \A i \in {1, 2, 3, 4, 6, 7, 9, 10} : IsDigit(s[i])
    /\ s[5] = "-" /\ s[8] = "-"

\* C10: a request of an endpoint that takes a date, with a date text that
\* does not have the shape YYYY-MM-DD, is answered 400 without a connection
\* to the store having been opened for it.
C10_MalformedDateRejectedBeforeStore ==
    \A c \in Clients :
        ( /\ Done(c)
          /\ req[c].kind \in {"mark_attendance", "get_attendance",
                              "update_attendance", "delete_attendance"}
          /\ ~MatchesYYYYMMDD(req[c].date) )
        => req[c].code = 400 /\ req[c].conns = 0

\* C11: a POST /students whose name or class is the empty string is answered
\* 400 and never reaches the INSERT of add_student.
C11_EmptyNameOrClassRejected ==
    \A c \in Clients :
        ( /\ req[c].kind = "create_student"
          /\ (req[c].name = "" \/ req[c].class = "") )
        => /\ req[c].pc \in {"idle", "done"}
           /\ Done(c) => req[c].code = 400

\* C12: a PUT /students/{id} that runs alone on an existing student and
\* supplies only the name, or only the class, answers 200 with the supplied
\* field set and the other field as it was stored; the row stored is the same.
C12_PartialUpdate ==
    ( /\ ~overlap
      /\ Len(order) >= 1
      /\ req[order[1]].kind = "update_student"
      /\ HadStudent(req[order[1]].sid)
      /\ (req[order[1]].name = None) # (req[order[1]].class = None) ) =>
        LET r1 == req[order[1]]
            old == CHOOSE r \in students0 : r.id = r1.sid
            row == StudentRow(r1.sid,
                              IF r1.name = None THEN old.name ELSE r1.name,
                              IF r1.class = None THEN old.class ELSE r1.class)
        IN  /\ r1.code = 200
            /\ r1.body = {row}
            /\ Len(order) = 1 => row \in students

\* Only the first request of the run has arrived, and it has been answered.
OnlyFirstAnswered ==
    /\ Len(order) = 1
    /\ \A o \in Clients \ {order[1]} : req[o].pc = "idle"

\* The first request of the run updates or deletes a student, or a record
\* (with a date that parses), that the store does not hold.
FirstTargetsAbsent ==
    /\ ~overlap
    /\ Len(order) >= 1
    /\ \/ /\ req[order[1]].kind \in {"update_student", "delete_student"}
          /\ ~HadStudent(req[order[1]].sid)
       \/ /\ req[order[1]].kind \in {"update_attendance", "delete_attendance"}
          /\ strptime(req[order[1]].date) # ValueError
          /\ Attendance0(req[order[1]].sid, strptime(req[order[1]].date)) = {}

\* C14: a PUT or DELETE of a student id that is not stored, and a PUT or
\* DELETE of a (student_id, date) that has no record, is answered 404 and
\* the two tables are afterwards as they were before it.
C14_AbsentEntityIsNotFound ==
    FirstTargetsAbsent =>
        /\ req[order[1]].code = 404
        /\ OnlyFirstAnswered => students = students0 /\ attendance = attendance0

\* A PUT of a record that does not exist, on a store that holds the
\* student, was answered 404.
C14_Witness ==
    /\ FirstTargetsAbsent
    /\ OnlyFirstAnswered
    /\ req[order[1]].kind = "update_attendance"
    /\ HadStudent(req[order[1]].sid)
    /\ req[order[1]].code = 404

\* C15: a PUT /attendance/{student_id}/{date} with a date that parses and a
\* status in {Present, Absent} is answered 200 or 404, whatever the other
\* requests do between its existence check, its update and its read-back.
C15_UpdateAnswers200Or404 ==
    \A c \in Clients :
        ( /\ Done(c)
          /\ req[c].kind = "update_attendance"
          /\ strptime(req[c].date) # ValueError
          /\ StatusValid(req[c].status) )
        => req[c].code \in {200, 404}

\* C13: a request during whose handling a connect_db returned None, the
\* store being unreachable, is answered 500.
C13_UnreachableStoreIs500 ==
    \A c \in Clients : (Done(c) /\ req[c].refused) => req[c].code = 500

\* C16: when the server has been reachable during the whole startup, the
\* startup does not fail, and once it is over the database and both tables
\* exist and the rows are the ones found at the start; the server may have
\* been fresh, or have held the database and the tables already.
C16_StartupEnsuresSchema ==
    ~boot.down =>
        /\ boot.pc # "exit"
        /\ boot.pc = "serving" =>
              /\ schema = FullSchema
              /\ students = students0
              /\ attendance = attendance0

\* C17: when create_database or create_tables has failed during a startup,
\* the process does not get to serve requests.
C17_SchemaFailureStopsStartup ==
    (boot.dbFailed \/ boot.tablesFailed) => boot.pc # "serving"

\* C18: the startup makes at most max_retries attempts; it has waited once
\* after every failed attempt that another attempt followed; it serves only
\* when an attempt succeeded and ends the process when max_retries failed.
C18_BoundedRetriesWithDelay ==
    /\ boot.attempt < max_retries
    /\ boot.failed <= max_retries
    /\ boot.pc \in {"init_system", "connect_db"} => boot.sleeps = boot.failed
    /\ boot.pc = "exit" => boot.failed = max_retries
    /\ boot.pc = "serving" => boot.failed < max_retries

C20_ConnectionsReleased ==
    \A c \in Clients : Done(c) => req[c].open = 0

\* C21: a request that is answered with a 4xx or 5xx status has committed
\* no change of the tables; and when it is the only request that has
\* arrived, the tables are as they were at the start.
C21_ErrorLeavesTablesUnchanged ==
    /\ \A c \in Clients : (Done(c) /\ req[c].code >= 400) => ~req[c].wrote
    /\ ( /\ OnlyFirstAnswered
         /\ req[order[1]].code >= 400 ) =>
           /\ students = students0
           /\ attendance = attendance0

\* The POST /students of the run with id sid and both name and class given.
CreatesOf(sid) ==
    {c \in Clients : /\ req[c].kind = "create_student"
                     /\ req[c].sid = sid
                     /\ req[c].name # None
                     /\ req[c].class # None}

\* C22: when the requests that write are two or more POST /students with the
\* same id, which no student has, then, however their existence checks and
\* inserts interleave, once all are answered exactly one got 201 and every
\* other one 400, and the one row stored is the row of the one that got 201;
\* and the table students never holds two rows with the same id.
C22_ExactlyOneCreateSucceeds ==
    /\ PrimaryKeyStudents(students)
    /\ \A sid \in Ids :
        ( /\ Cardinality(CreatesOf(sid)) >= 2
          /\ \A c \in Clients \ CreatesOf(sid) : req[c].kind \in ReadOnlyKinds
          /\ \A c \in CreatesOf(sid) : Done(c)
          /\ ~HadStudent(sid) )
        => /\ Cardinality({c \in CreatesOf(sid) : req[c].code = 201}) = 1
           /\ \A c \in CreatesOf(sid) : req[c].code \in {201, 400}
           /\ \A c \in CreatesOf(sid) :
                req[c].code = 201 =>
                    SelectStudent(sid) = {StudentRow(sid, req[c].name, req[c].class)}

\* Two creates of the same id with different names both passed the SELECT of
\* add_student; the insert of the second one was refused by the store.
C22_Witness ==
    \E c1 \in Clients, c2 \in Clients :
        /\ overlap
        /\ c1 # c2
        /\ {c1, c2} \subseteq CreatesOf(req[c1].sid)
        /\ ~HadStudent(req[c1].sid)
        /\ req[c1].name # req[c2].name
        /\ Done(c1) /\ req[c1].code = 201
        /\ Done(c2) /\ req[c2].code = 400 /\ req[c2].body = Error("Database error")

====
